---- MODULE Spec2Model ----
(***************************************************************************)
(* A model of xmlparse.py (LEMON): the two XML codecs, XMLOffsetFile       *)
(* (dump / load / add) and CandidateAnnuli (xml_dump / xml_load), with the *)
(* header composer setup_header and the DTD validation validate_dtd.       *)
(*                                                                         *)
(* A file is the sequence of its lines.  A line is a record: the XML       *)
(* declaration, the generation comment, a line of the DTD (with the        *)
(* declaration it makes), or an element line of the pretty-printed tree.   *)
(* A text (element text, attribute value) is a record that says what the   *)
(* characters denote: a string, a decimal number with the digits that were *)
(* printed, an integer, a broken-down UTC time, or nothing (None).         *)
(***************************************************************************)
EXTENDS Integers, Sequences, FiniteSets, TLC

\* ------------------------------------------------------------------------
\* Bounds of the model
\* ------------------------------------------------------------------------

\* At most this many XMLOffset entries in an XMLOffsetFile.
MaxEntries == 2

\* At most this many CandidateAnnuli in a mapping, over all its filters.
MaxCands == 3

\* F of the value of v: v is evaluated once, however often F uses it.
ByValue(v, F(_)) == CHOOSE r \in {F(x) : x \in {v}} : TRUE

\* ------------------------------------------------------------------------
\* Python floats, as decimals: sign, integer part, fraction digits (the
\* last fraction digit is never 0).
\* ------------------------------------------------------------------------

Flt(neg, ip, fd) == [neg |-> neg, ip |-> ip, fd |-> fd]

ZeroF == Flt(FALSE, 0, <<>>)

RECURSIVE NumDigits(_)
NumDigits(n) == IF n = 0 THEN 0 ELSE 1 + NumDigits(n \div 10)

RECURSIVE LeadingZeros(_)
LeadingZeros(fd) ==
    IF fd = <<>> \/ fd[1] # 0 THEN 0 ELSE 1 + LeadingZeros(Tail(fd))

RECURSIVE StripZeros(_)
StripZeros(fd) ==
    IF fd # <<>> /\ fd[Len(fd)] = 0
    THEN StripZeros(SubSeq(fd, 1, Len(fd) - 1))
    ELSE fd

\* The digits ds plus one unit in the last place: the new digits and the
\* carry out of the first place.
RECURSIVE IncDigits(_)
IncDigits(ds) ==
    IF ds = <<>> THEN [carry |-> 1, ds |-> <<>>]
    ELSE LET last == ds[Len(ds)]
             front == SubSeq(ds, 1, Len(ds) - 1)
         IN IF last < 9
            THEN [carry |-> 0, ds |-> Append(front, last + 1)]
            ELSE LET r == IncDigits(front)
                 IN [carry |-> r.carry, ds |-> Append(r.ds, 0)]

\* x rounded to p fraction digits, as C's printf does for "%.<p>f" (a tie
\* goes to the even digit).
RoundFrac(x, p) ==
    IF Len(x.fd) <= p THEN x
    ELSE LET kept == SubSeq(x.fd, 1, p)
             next == x.fd[p + 1]
             lastKept == IF p = 0 THEN x.ip % 10 ELSE kept[p]
             up == \/ next > 5
                   \/ next = 5 /\ (Len(x.fd) > p + 1 \/ lastKept % 2 = 1)
             r == IF up THEN IncDigits(kept) ELSE [carry |-> 0, ds |-> kept]
         IN Flt(x.neg, x.ip + r.carry, StripZeros(r.ds))

\* The precision of Python 2's str() of a float: "%.12g".
PyFloat_STR_PRECISION == 12

\* x rounded to 12 significant digits.
Round12(x) ==
    RoundFrac(x, IF x.ip > 0
                 THEN PyFloat_STR_PRECISION - NumDigits(x.ip)
                 ELSE PyFloat_STR_PRECISION + LeadingZeros(x.fd))

\* a < b on the magnitudes' fraction digits.
RECURSIVE FracLess(_, _)
FracLess(a, b) ==
    IF b = <<>> THEN FALSE
    ELSE IF a = <<>> THEN TRUE
    ELSE IF a[1] # b[1] THEN a[1] < b[1]
    ELSE FracLess(Tail(a), Tail(b))

MagLess(a, b) == a.ip < b.ip \/ (a.ip = b.ip /\ FracLess(a.fd, b.fd))

\* a < b on Python floats.
FloatLess(a, b) ==
    IF a.neg /\ ~b.neg THEN a # b /\ ~(a.ip = 0 /\ a.fd = <<>> /\ b.ip = 0 /\ b.fd = <<>>)
    ELSE IF ~a.neg /\ b.neg THEN FALSE
    ELSE IF a.neg THEN MagLess(b, a)
    ELSE MagLess(a, b)

\* ------------------------------------------------------------------------
\* Calendar conversions (proleptic Gregorian, UTC)
\* ------------------------------------------------------------------------

Tm(Y, M, D, h, m, s, wd) ==
    [year |-> Y, mon |-> M, mday |-> D, hour |-> h, min |-> m, sec |-> s,
     wday |-> wd]

NoTm == Tm(0, 0, 0, 0, 0, 0, 0)

\* time.gmtime: seconds after the Unix epoch to a broken-down UTC time
\* (tm_wday: Monday is 0).
gmtime(t) ==
    LET days == t \div 86400
        rem == t % 86400
        z == days + 719468
        era == z \div 146097
        doe == z - era * 146097
        yoe == (doe - doe \div 1460 + doe \div 36524 - doe \div 146096) \div 365
        doy == doe - (365 * yoe + yoe \div 4 - yoe \div 100)
        mp == (5 * doy + 2) \div 153
        d == doy - (153 * mp + 2) \div 5 + 1
        m == IF mp < 10 THEN mp + 3 ELSE mp - 9
        y == yoe + era * 400 + (IF m <= 2 THEN 1 ELSE 0)
    IN Tm(y, m, d, rem \div 3600, (rem % 3600) \div 60, rem % 60,
          (days + 3) % 7)

\* calendar.timegm: a broken-down UTC time to seconds after the epoch; the
\* weekday is not read.
timegm(tm) ==
    LET y == tm.year - (IF tm.mon <= 2 THEN 1 ELSE 0)
        era == y \div 400
        yoe == y - era * 400
        mp == IF tm.mon > 2 THEN tm.mon - 3 ELSE tm.mon + 9
        doy == (153 * mp + 2) \div 5 + tm.mday - 1
        doe == yoe * 365 + yoe \div 4 - yoe \div 100 + doy
        days == era * 146097 + doe - 719468
    IN days * 86400 + tm.hour * 3600 + tm.min * 60 + tm.sec

\* ------------------------------------------------------------------------
\* Texts: what an element's text or an attribute's value holds
\* ------------------------------------------------------------------------

Text(kind, s, n, x, tm) == [kind |-> kind, s |-> s, n |-> n, x |-> x, tm |-> tm]

\* No text at all: element.text or element.get(name) is None.
TextNone == Text("none", "", 0, ZeroF, NoTm)

\* A character string that is no number and no date.
StrText(s) == Text("str", s, 0, ZeroF, NoTm)

\* str(n) of a Python int.
IntText(n) == Text("int", "", n, ZeroF, NoTm)

\* str(x) of a Python 2 float: 12 significant digits.
FloatStr(x) == Text("float", "", -1, Round12(x), NoTm)

\* "%.<p>f" % x: p fraction digits.
FloatFixed(x, p) == Text("float", "", p, RoundFrac(x, p), NoTm)

\* methods.utctime(seconds): "Mon Feb 13 23:11:20 2012 UTC".
utctime(seconds) == Text("date", "", 0, ZeroF, gmtime(seconds))

\* float(text): [status, value].
float(t) ==
    IF t.kind = "none" THEN [status |-> "TypeError", value |-> ZeroF]
    ELSE IF t.kind = "float" THEN [status |-> "ok", value |-> t.x]
    ELSE IF t.kind = "int" THEN [status |-> "ok", value |-> Flt(t.n < 0, IF t.n < 0 THEN -t.n ELSE t.n, <<>>)]
    ELSE [status |-> "ValueError", value |-> ZeroF]

\* int(text): [status, value].
int(t) ==
    IF t.kind = "none" THEN [status |-> "TypeError", value |-> 0]
    ELSE IF t.kind = "int" THEN [status |-> "ok", value |-> t.n]
    ELSE [status |-> "ValueError", value |-> 0]

\* time.strptime(text, STRPTIME_FORMAT): [status, value].
strptime(t) ==
    IF t.kind = "none" THEN [status |-> "TypeError", value |-> NoTm]
    ELSE IF t.kind = "date" THEN [status |-> "ok", value |-> t.tm]
    ELSE [status |-> "ValueError", value |-> NoTm]

\* The photometric filters the passband module knows, in their natural
\* order, and the Passband of a name.
PassbandNames == <<"Johnson V", "Johnson I">>

Passband(name) ==
    [name |-> name,
     order |-> CHOOSE i \in 1..Len(PassbandNames) : PassbandNames[i] = name]

\* passband.Passband(text): [status, value].
PassbandOf(t) ==
    IF t.kind = "none" THEN [status |-> "TypeError", value |-> Passband(PassbandNames[1])]
    ELSE IF t.kind = "str" /\ \E i \in 1..Len(PassbandNames) : PassbandNames[i] = t.s
    THEN [status |-> "ok", value |-> Passband(t.s)]
    ELSE [status |-> "ValueError", value |-> Passband(PassbandNames[1])]

\* ------------------------------------------------------------------------
\* Lines of a file
\* ------------------------------------------------------------------------

Line(k, s, tag, attrs, text, indent, model) ==
    [k |-> k, s |-> s, tag |-> tag, attrs |-> attrs, text |-> text,
     indent |-> indent, model |-> model]

\* A line of a DTD: the characters, and the declaration they make.
DtdLine(s, k, tag, model) == Line(k, s, tag, <<>>, TextNone, 0, model)

Blank == DtdLine("", "blank", "", <<>>)
Doctype(s, root) == DtdLine(s, "DOCTYPE", root, <<>>)
DoctypeEnd == DtdLine("]>", "DOCTYPE-END", "", <<>>)
\* <!ELEMENT tag (a, b+, c*)>, <!ELEMENT tag (#PCDATA)>, <!ELEMENT tag EMPTY>:
\* the content model is the sequence of <<name, "1" | "+" | "*">>.
ElementDecl(s, tag, model) == DtdLine(s, "ELEMENT", tag, model)
\* <!ATTLIST tag attr CDATA #REQUIRED>
AttlistDecl(s, tag, attr) == DtdLine(s, "ATTLIST", tag, <<<<attr, "#REQUIRED">>>>)

PCDATA == <<<<"#PCDATA", "1">>>>
EMPTY == <<<<"EMPTY", "1">>>>

\* The lines tostring and setup_header make.
XmlDeclaration ==
    Line("decl", "<?xml version='1.0' encoding='utf-8' standalone='yes'?>",
         "", <<>>, TextNone, 0, <<>>)
Comment(t) ==
    Line("comment", "<!-- File generated by LEMON on %s -->", "", <<>>, t, 0, <<>>)
ElementLine(k, node) ==
    Line(k, "", node.tag, node.attrs, node.text, 2 * node.depth, <<>>)

\* ------------------------------------------------------------------------
\* lxml.etree: a tree is the sequence of its elements in document order,
\* each with its depth; an element is its index.
\* ------------------------------------------------------------------------

Node(tag, attrs, text, depth) ==
    [tag |-> tag, attrs |-> attrs, text |-> text, depth |-> depth]

\* lxml.etree.Element(tag, **attrs), with its text.
Element(tag, attrs, text) == <<Node(tag, attrs, text, 0)>>

\* parent.append(child): the child's elements follow, one level deeper.
AppendChild(parent, child) ==
    parent \o [i \in 1..Len(child) |->
                 [child[i] EXCEPT !.depth = child[i].depth + parent[1].depth + 1]]

\* The last index of the subtree of element i.
RECURSIVE SubtreeEnd(_, _, _)
SubtreeEnd(nodes, i, j) ==
    IF j < Len(nodes) /\ nodes[j + 1].depth > nodes[i].depth
    THEN SubtreeEnd(nodes, i, j + 1)
    ELSE j

\* The indexes in lo..hi that satisfy Test, in order.
SelectIdx(lo, hi, Test(_)) ==
    SelectSeq([k \in 1..(hi - lo + 1) |-> lo + k - 1], Test)

\* element.getiterator(tag = tag): the element and its descendants with
\* that tag, in document order (element 0 is no element).
getiterator(nodes, i, tag) ==
    IF i = 0 THEN <<>>
    ELSE SelectIdx(i, SubtreeEnd(nodes, i, i), LAMBDA j : nodes[j].tag = tag)

\* iter(element): its children.
Children(nodes, i) ==
    IF i = 0 THEN <<>>
    ELSE SelectIdx(i + 1, SubtreeEnd(nodes, i, i),
              LAMBDA j : nodes[j].depth = nodes[i].depth + 1)

\* element.get(name)
Get(node, name) ==
    IF name \in DOMAIN node.attrs THEN node.attrs[name] ELSE TextNone

\* The closing lines of the open elements at depth >= d, innermost first.
RECURSIVE CloseLines(_, _)
CloseLines(open, d) ==
    IF open # <<>> /\ open[Len(open)].depth >= d
    THEN <<ElementLine("close", [open[Len(open)] EXCEPT !.attrs = <<>>, !.text = TextNone])>>
         \o CloseLines(SubSeq(open, 1, Len(open) - 1), d)
    ELSE <<>>

RECURSIVE PrettyPrint(_, _, _)
PrettyPrint(nodes, i, open) ==
    IF i > Len(nodes) THEN CloseLines(open, 0)
    ELSE LET n == nodes[i]
             kept == SelectSeq(open, LAMBDA e : e.depth < n.depth)
             parent == i < Len(nodes) /\ nodes[i + 1].depth > n.depth
             k == IF parent THEN "open"
                  ELSE IF n.text = TextNone THEN "empty" ELSE "leaf"
         IN CloseLines(open, n.depth) \o <<ElementLine(k, n)>>
            \o PrettyPrint(nodes, i + 1, IF parent THEN Append(kept, n) ELSE kept)

\* lxml.etree.tostring(root, xml_declaration = True, pretty_print = True,
\* standalone = True).split('\n'): the declaration, one line per start tag,
\* empty element, text element and end tag, and the empty string after the
\* last newline.
tostring(root) == <<XmlDeclaration>> \o PrettyPrint(root, 1, <<>>) \o <<Blank>>

IsElementLine(l) == l.k \in {"open", "leaf", "empty"}

\* lxml.etree.parse(path).getroot(): the elements of the file.
parse(lines) ==
    LET ls == SelectSeq(lines, IsElementLine)
    IN [i \in 1..Len(ls) |->
          Node(ls[i].tag, ls[i].attrs, ls[i].text, ls[i].indent \div 2)]

\* ------------------------------------------------------------------------
\* DTD validation
\* ------------------------------------------------------------------------

\* The tags match the content model (consecutive names of a model differ,
\* so each name takes all the tags it can).
RECURSIVE MatchModel(_, _)
MatchModel(tags, model) ==
    IF model = <<>> THEN tags = <<>>
    ELSE LET name == model[1][1]
             card == model[1][2]
             n == IF tags # <<>> /\ tags[1] = name
                  THEN IF card = "1" THEN 1
                       ELSE CHOOSE k \in 1..Len(tags) :
                              /\ \A j \in 1..k : tags[j] = name
                              /\ k = Len(tags) \/ tags[k + 1] # name
                  ELSE 0
         IN /\ card = "*" \/ n >= 1
            /\ MatchModel(SubSeq(tags, n + 1, Len(tags)), Tail(model))

\* Element i of nodes is valid against the declarations of dtd.
ValidElement(dtd, nodes, i) ==
    LET n == nodes[i]
        decls == SelectSeq(dtd, LAMBDA l : l.k = "ELEMENT" /\ l.tag = n.tag)
        atts == SelectSeq(dtd, LAMBDA l : l.k = "ATTLIST" /\ l.tag = n.tag)
        kids == Children(nodes, i)
        tags == [j \in 1..Len(kids) |-> nodes[kids[j]].tag]
    IN /\ decls # <<>>
       /\ IF decls[1].model = PCDATA THEN kids = <<>>
          ELSE IF decls[1].model = EMPTY THEN kids = <<>> /\ n.text = TextNone
          ELSE n.text = TextNone /\ MatchModel(tags, decls[1].model)
       /\ \A j \in 1..Len(atts) : atts[j].model[1][1] \in DOMAIN n.attrs
       /\ \A a \in DOMAIN n.attrs :
              \E j \in 1..Len(atts) : atts[j].model[1][1] = a

\* lxml.etree.parse(path, XMLParser(dtd_validation = True)) succeeds: the
\* file holds a DTD, the root is the one the DTD names, and every element
\* is valid.
Valid(lines) ==
    \E dtd \in {SelectSeq(lines, LAMBDA l : l.k \in {"DOCTYPE", "ELEMENT", "ATTLIST"})},
       nodes \in {parse(lines)} :
       /\ dtd # <<>> /\ dtd[1].k = "DOCTYPE"
       /\ nodes # <<>> /\ nodes[1].tag = dtd[1].tag
       /\ \A i \in 1..Len(nodes) : ValidElement(dtd, nodes, i)

\* validate_dtd(path): the status it ends with.
validate_dtd(lines) == IF Valid(lines) THEN "ok" ELSE "XMLSyntaxError"

\* ------------------------------------------------------------------------
\* setup_header
\* ------------------------------------------------------------------------

\* list.insert(1, x)
Insert1(lines, x) ==
    IF lines = <<>> THEN <<x>> ELSE <<lines[1], x>> \o Tail(lines)

\* lines[:n] and lines[n:]
Upto(lines, n) == SubSeq(lines, 1, IF n < Len(lines) THEN n ELSE Len(lines))
From(lines, n) == SubSeq(lines, n + 1, Len(lines))

\* A setup_header that puts the comment and the DTD in place of the
\* text's second line instead of in front of it.
setup_header_replacing(xml_content, dtd, now) ==
    [lines |-> Upto(xml_content, 1) \o <<Comment(utctime(now))>> \o dtd
               \o From(xml_content, 2),
     dtd |-> dtd]

\* setup_header(xml_content, dtd), called at time now: the lines it returns
\* and the dtd list as the call leaves it.
setup_header(xml_content, dtd, now) ==
    ByValue(Insert1(xml_content, Comment(utctime(now))),
            LAMBDA lines : [lines |-> Upto(lines, 2) \o dtd \o From(lines, 2),
                            dtd |-> dtd])

\* ------------------------------------------------------------------------
\* XMLOffset and XMLOffsetFile
\* ------------------------------------------------------------------------

\* XMLOffset.__init__
XMLOffset(reference, shifted, object_, shifted_filter, shifted_date, shifted_fwhm, shifted_airmass, x_offset, y_offset, x_overlap, y_overlap) ==
    [reference |-> reference, shifted |-> shifted, object |-> object_,
     filter |-> shifted_filter, date |-> shifted_date, fwhm |-> shifted_fwhm,
     airmass |-> shifted_airmass, x |-> x_offset, y |-> y_offset,
     x_overlap |-> x_overlap, y_overlap |-> y_overlap]

\* XMLOffsetFile.XML_DTD
XMLOffsetFile_XML_DTD == <<
    Blank,
    Doctype("<!DOCTYPE offsets [", "offsets"),
    ElementDecl("<!ELEMENT offsets (reference, offset+)>", "offsets",
                <<<<"reference", "1">>, <<"offset", "+">>>>),
    AttlistDecl("<!ATTLIST offsets size CDATA  #REQUIRED>", "offsets", "size"),
    Blank,
    ElementDecl("<!ELEMENT reference (image)>", "reference", <<<<"image", "1">>>>),
    ElementDecl("<!ELEMENT offset (image, x_offset, y_offset)>", "offset",
                <<<<"image", "1">>, <<"x_offset", "1">>, <<"y_offset", "1">>>>),
    ElementDecl("<!ELEMENT image (path, date, filter, object, fwhm, airmass)>",
                "image",
                <<<<"path", "1">>, <<"date", "1">>, <<"filter", "1">>,
                  <<"object", "1">>, <<"fwhm", "1">>, <<"airmass", "1">>>>),
    ElementDecl("<!ELEMENT path (#PCDATA)>", "path", PCDATA),
    ElementDecl("<!ELEMENT date (#PCDATA)>", "date", PCDATA),
    ElementDecl("<!ELEMENT filter (#PCDATA)>", "filter", PCDATA),
    ElementDecl("<!ELEMENT object (#PCDATA)>", "object", PCDATA),
    ElementDecl("<!ELEMENT fwhm (#PCDATA)>", "fwhm", PCDATA),
    ElementDecl("<!ELEMENT airmass (#PCDATA)>", "airmass", PCDATA),
    ElementDecl("<!ELEMENT x_offset  (#PCDATA)>", "x_offset", PCDATA),
    AttlistDecl("<!ATTLIST x_offset overlap CDATA #REQUIRED>", "x_offset", "overlap"),
    ElementDecl("<!ELEMENT y_offset  (#PCDATA)>", "y_offset", PCDATA),
    AttlistDecl("<!ATTLIST y_offset overlap CDATA #REQUIRED>", "y_offset", "overlap"),
    DoctypeEnd,
    Blank>>

\* XMLOffsetFile.__init__: the reference descriptor and no entry.
XMLOffsetFile(reference_path, date, filter_, object_, fwhm, airmass) ==
    [reference |-> [path |-> reference_path, date |-> date, filter |-> filter_,
                    object |-> object_, fwhm |-> fwhm, airmass |-> airmass],
     entries |-> <<>>]

\* An add that raises after it has appended.
add_then_raise(self, offset) ==
    [status |-> IF offset.reference # self.reference.path
                THEN "ValueError" ELSE "ok",
     self |-> [self EXCEPT !.entries = Append(self.entries, offset)]]

\* An add with no check of the reference path.
add_unguarded(self, offset) ==
    [status |-> "ok",
     self |-> [self EXCEPT !.entries = Append(self.entries, offset)]]

\* XMLOffsetFile.add(offset): the status it ends with and the object as it
\* leaves it.
add(self, offset) ==
    IF offset.reference # self.reference.path
    THEN [status |-> "ValueError", self |-> self]
    ELSE [status |-> "ok",
          self |-> [self EXCEPT !.entries = Append(self.entries, offset)]]

\* list.append, list.insert and list.extend, which XMLOffsetFile inherits.
list_append(self, offset) ==
    [self EXCEPT !.entries = Append(self.entries, offset)]

list_insert(self, index, offset) ==
    [self EXCEPT !.entries =
        Upto(self.entries, index) \o <<offset>> \o From(self.entries, index)]

list_extend(self, offsets) ==
    [self EXCEPT !.entries = self.entries \o offsets]

\* build_image_element of _toxml
build_image_element(path, date, filter_, object_, fwhm, airmass) ==
    LET image == Element("image", <<>>, TextNone)
        path_element == Element("path", <<>>, StrText(path))
        date_element == Element("date", <<>>, utctime(date))
        filter_element == Element("filter", <<>>, StrText(filter_.name))
        object_element == Element("object", <<>>, StrText(object_))
        fwhm_element == Element("fwhm", <<>>, FloatStr(fwhm))
        airmass_element == Element("airmass", <<>>, FloatStr(airmass))
    IN AppendChild(AppendChild(AppendChild(AppendChild(AppendChild(AppendChild(
           image, path_element), date_element), filter_element),
           object_element), fwhm_element), airmass_element)

\* The 'offset' element of one XMLOffset (the body of _toxml's loop).
offset_element(offset) ==
    LET element == Element("offset", <<>>, TextNone)
        image == build_image_element(offset.shifted, offset.date, offset.filter,
                                     offset.object, offset.fwhm, offset.airmass)
        x == Element("x_offset", [overlap |-> IntText(offset.x_overlap)],
                     FloatStr(offset.x))
        y == Element("y_offset", [overlap |-> IntText(offset.y_overlap)],
                     FloatStr(offset.y))
    IN AppendChild(AppendChild(AppendChild(element, image), x), y)

RECURSIVE AppendOffsets(_, _)
AppendOffsets(root, entries) ==
    IF entries = <<>> THEN root
    ELSE AppendOffsets(AppendChild(root, offset_element(entries[1])), Tail(entries))

\* The tree _toxml builds.
offsets_root(self) ==
    LET root == Element("offsets", [size |-> IntText(Len(self.entries))], TextNone)
        reference_element == Element("reference", <<>>, TextNone)
        r == self.reference
        image == build_image_element(r.path, r.date, r.filter, r.object,
                                     r.fwhm, r.airmass)
    IN AppendOffsets(AppendChild(root, AppendChild(reference_element, image)),
                     self.entries)

\* XMLOffsetFile._toxml, called at time now with the class's XML_DTD as it
\* is then: the lines of the document, and XML_DTD as the call leaves it.
toxml(self, dtd, now) == setup_header(tostring(offsets_root(self)), dtd, now)

\* A file: whether it exists, and its lines.
File(lines) == [exists |-> TRUE, lines |-> lines]
NoFile == [exists |-> FALSE, lines |-> <<>>]

\* A dump that removes the file when the validation fails.
dump_removing(self, dtd, now) ==
    ByValue(toxml(self, dtd, now),
            LAMBDA x : [status |-> validate_dtd(x.lines),
                        file |-> IF validate_dtd(x.lines) = "ok"
                                 THEN File(x.lines) ELSE NoFile,
                        dtd |-> x.dtd])

\* XMLOffsetFile.dump(path), called at time now: the status it ends with,
\* the file at path and XML_DTD as it leaves them.
dump(self, dtd, now) ==
    ByValue(toxml(self, dtd, now),
            LAMBDA x : [status |-> validate_dtd(x.lines), file |-> File(x.lines),
                        dtd |-> x.dtd])

\* No XMLOffsetFile: what load's result holds when it raised before making one.
ReferenceImageNone ==
    XMLOffsetFile("None", 0, Passband(PassbandNames[1]), "None", ZeroF, ZeroF)

\* get_child of load, and the text of the child: [status, text].
get_child(nodes, element, tag) ==
    LET it == getiterator(nodes, element, tag)
    IN IF it = <<>> THEN 0 ELSE it[1]

ChildText(nodes, element, tag) ==
    LET c == get_child(nodes, element, tag)
    IN IF c = 0 THEN [status |-> "StopIteration", text |-> TextNone]
       ELSE [status |-> "ok", text |-> nodes[c].text]

\* The first status of the sequence that is not "ok".
RECURSIVE FirstError(_)
FirstError(statuses) ==
    IF statuses = <<>> THEN "ok"
    ELSE IF statuses[1] # "ok" THEN statuses[1]
    ELSE FirstError(Tail(statuses))

\* element.text as a Python value: the string, or None.
PyStr(t) == IF t.kind = "none" THEN "None" ELSE t.s

\* parse_image_element of load: [status, path, date, filter, object, fwhm,
\* airmass].
parse_image_element(nodes, element) ==
    LET path == ChildText(nodes, element, "path")
        date_str == ChildText(nodes, element, "date")
        tm == strptime(date_str.text)
        filter_str == ChildText(nodes, element, "filter")
        filter_ == PassbandOf(filter_str.text)
        object_ == ChildText(nodes, element, "object")
        fwhm_str == ChildText(nodes, element, "fwhm")
        fwhm == float(fwhm_str.text)
        airmass_str == ChildText(nodes, element, "airmass")
        airmass == float(airmass_str.text)
    IN [status |-> FirstError(<<path.status, date_str.status, tm.status,
                                filter_str.status, filter_.status,
                                object_.status, fwhm_str.status, fwhm.status,
                                airmass_str.status, airmass.status>>),
        path |-> PyStr(path.text),
        date |-> IF tm.status = "ok" THEN timegm(tm.value) ELSE 0,
        filter |-> filter_.value, object |-> PyStr(object_.text),
        fwhm |-> fwhm.value, airmass |-> airmass.value]

\* One turn of load's loop over the 'offset' elements: [status, offset].
load_offset(nodes, offset, reference_path) ==
    ByValue(parse_image_element(nodes, get_child(nodes, offset, "image")), LAMBDA img :
    LET image == get_child(nodes, offset, "image")
        xe == get_child(nodes, offset, "x_offset")
        x_offset == float(IF xe = 0 THEN TextNone ELSE nodes[xe].text)
        x_overlap == int(IF xe = 0 THEN TextNone ELSE Get(nodes[xe], "overlap"))
        ye == get_child(nodes, offset, "y_offset")
        y_offset == float(IF ye = 0 THEN TextNone ELSE nodes[ye].text)
        y_overlap == int(IF ye = 0 THEN TextNone ELSE Get(nodes[ye], "overlap"))
    IN [status |-> FirstError(<<IF image = 0 THEN "StopIteration" ELSE "ok",
                                img.status,
                                IF xe = 0 THEN "StopIteration" ELSE "ok",
                                x_offset.status, x_overlap.status,
                                IF ye = 0 THEN "StopIteration" ELSE "ok",
                                y_offset.status, y_overlap.status>>),
        offset |-> XMLOffset(reference_path, img.path, img.object, img.filter,
                             img.date, img.fwhm, img.airmass, x_offset.value,
                             y_offset.value, x_overlap.value, y_overlap.value)])

\* load's loop: the XMLOffsets appended, in document order, up to the first
\* element that raises.
RECURSIVE load_offsets(_, _, _)
load_offsets(nodes, offsets, reference_path) ==
    IF offsets = <<>> THEN [status |-> "ok", entries |-> <<>>]
    ELSE ByValue(load_offset(nodes, offsets[1], reference_path), LAMBDA o :
            IF o.status # "ok" THEN [status |-> o.status, entries |-> <<>>]
            ELSE ByValue(load_offsets(nodes, Tail(offsets), reference_path), LAMBDA rest :
                    [status |-> rest.status, entries |-> <<o.offset>> \o rest.entries]))

\* XMLOffsetFile.load(xml_path): the status it ends with and, when that is
\* "ok", the XMLOffsetFile it returns.
load(file) ==
    IF ~file.exists THEN [status |-> "IOError", offset_file |-> ReferenceImageNone]
    ELSE ByValue(parse(file.lines), LAMBDA nodes :
    LET root == IF nodes = <<>> THEN 0 ELSE 1
        reference == get_child(nodes, root, "reference")
        image == get_child(nodes, reference, "image")
    IN ByValue(parse_image_element(nodes, image), LAMBDA args :
    LET offset_file == XMLOffsetFile(args.path, args.date, args.filter,
                                     args.object, args.fwhm, args.airmass)
    IN ByValue(load_offsets(nodes, getiterator(nodes, root, "offset"), args.path),
               LAMBDA loop :
        [status |-> FirstError(<<IF reference = 0 THEN "StopIteration" ELSE "ok",
                                 IF image = 0 THEN "StopIteration" ELSE "ok",
                                 args.status, loop.status>>),
         offset_file |-> [offset_file EXCEPT !.entries = loop.entries]])))

\* ------------------------------------------------------------------------
\* CandidateAnnuli
\* ------------------------------------------------------------------------

\* CandidateAnnuli.__init__
CandidateAnnuli(aperture, annulus, dannulus, stdev) ==
    [aperture |-> aperture, annulus |-> annulus, dannulus |-> dannulus,
     stdev |-> stdev]

\* CandidateAnnuli.XML_DTD
CandidateAnnuli_XML_DTD == <<
    Blank,
    Doctype("<!DOCTYPE annuli [", "annuli"),
    ElementDecl("<!ELEMENT annuli (band*)>", "annuli", <<<<"band", "*">>>>),
    Blank,
    ElementDecl("<!ELEMENT band (candidate*)>", "band", <<<<"candidate", "*">>>>),
    AttlistDecl("<!ATTLIST band name     CDATA #REQUIRED>", "band", "name"),
    AttlistDecl("<!ATTLIST band aperture CDATA #REQUIRED>", "band", "aperture"),
    AttlistDecl("<!ATTLIST band annulus  CDATA #REQUIRED>", "band", "annulus"),
    AttlistDecl("<!ATTLIST band dannulus CDATA #REQUIRED>", "band", "dannulus"),
    AttlistDecl("<!ATTLIST band stdev    CDATA #REQUIRED>", "band", "stdev"),
    Blank,
    ElementDecl("<!ELEMENT candidate EMPTY>", "candidate", EMPTY),
    AttlistDecl("<!ATTLIST candidate aperture CDATA #REQUIRED>", "candidate", "aperture"),
    AttlistDecl("<!ATTLIST candidate annulus  CDATA #REQUIRED>", "candidate", "annulus"),
    AttlistDecl("<!ATTLIST candidate dannulus CDATA #REQUIRED>", "candidate", "dannulus"),
    AttlistDecl("<!ATTLIST candidate stdev    CDATA #REQUIRED>", "candidate", "stdev"),
    DoctypeEnd,
    Blank>>

\* sorted(annuli.iterkeys()): the filters of the mapping in their natural
\* order.
sorted_keys(annuli) ==
    SelectSeq([i \in 1..Len(PassbandNames) |-> Passband(PassbandNames[i])],
              LAMBDA f : f \in DOMAIN annuli)

\* A minimum that keeps the last of the candidates of least stdev.
RECURSIVE min_stdev_last(_, _)
min_stdev_last(best, candidates) ==
    IF candidates = <<>> THEN best
    ELSE min_stdev_last(IF FloatLess(best.stdev, candidates[1].stdev)
                        THEN best ELSE candidates[1],
                        Tail(candidates))

\* min(candidates, key = operator.attrgetter('stdev')) of a list that is
\* not empty: the first candidate no later one is strictly below.
RECURSIVE min_stdev(_, _)
min_stdev(best, candidates) ==
    IF candidates = <<>> THEN best
    ELSE min_stdev(IF FloatLess(candidates[1].stdev, best.stdev)
                   THEN candidates[1] ELSE best,
                   Tail(candidates))

\* a's (annulus, aperture) is below b's.
KeyLess(a, b) ==
    \/ FloatLess(a.annulus, b.annulus)
    \/ a.annulus = b.annulus /\ FloatLess(a.aperture, b.aperture)

\* c put into a sorted list, after every candidate whose key is not above
\* its own.
RECURSIVE InsertSorted(_, _)
InsertSorted(sorted, c) ==
    IF sorted = <<>> THEN <<c>>
    ELSE IF KeyLess(c, sorted[1]) THEN <<c>> \o sorted
    ELSE <<sorted[1]>> \o InsertSorted(Tail(sorted), c)

\* list.sort(key = operator.attrgetter('annulus', 'aperture')): a stable
\* sort.
RECURSIVE SortFrom(_, _)
SortFrom(sorted, candidates) ==
    IF candidates = <<>> THEN sorted
    ELSE SortFrom(InsertSorted(sorted, candidates[1]), Tail(candidates))

\* A sort that leaves the list in the caller's order.
sort_skipped(candidates) == candidates

sort(candidates) == SortFrom(<<>>, candidates)

\* The four attributes xml_dump gives a band and a candidate.
candidate_kwargs(c) ==
    [aperture |-> FloatFixed(c.aperture, 5), annulus |-> FloatFixed(c.annulus, 5),
     dannulus |-> FloatFixed(c.dannulus, 5), stdev |-> FloatFixed(c.stdev, 8)]

RECURSIVE AppendCandidates(_, _)
AppendCandidates(band_element, candidates) ==
    IF candidates = <<>> THEN band_element
    ELSE AppendCandidates(
             AppendChild(band_element,
                         Element("candidate", candidate_kwargs(candidates[1]), TextNone)),
             Tail(candidates))

\* The band element of one filter: the best candidate's attributes, and
\* one candidate child per candidate of the sorted list.
band_element(pfilter, best, sorted) ==
    AppendCandidates(
        Element("band", [name |-> StrText(pfilter.name)] @@ candidate_kwargs(best),
                TextNone),
        sorted)

\* The loop of an xml_dump that sorts a copy of each list.
RECURSIVE dump_bands_copying(_, _, _)
dump_bands_copying(keys, annuli, root) ==
    IF keys = <<>> THEN [status |-> "ok", annuli |-> annuli, root |-> root]
    ELSE LET pfilter == keys[1]
             candidates == annuli[pfilter]
         IN IF candidates = <<>>
            THEN [status |-> "ValueError", annuli |-> annuli, root |-> root]
            ELSE LET best == min_stdev(candidates[1], Tail(candidates))
                     sorted == sort(candidates)
                 IN dump_bands_copying(Tail(keys), annuli,
                               AppendChild(root, band_element(pfilter, best, sorted)))

\* The loop of an xml_dump that passes over a filter with no candidates.
RECURSIVE dump_bands_skipping(_, _, _)
dump_bands_skipping(keys, annuli, root) ==
    IF keys = <<>> THEN [status |-> "ok", annuli |-> annuli, root |-> root]
    ELSE LET pfilter == keys[1]
             candidates == annuli[pfilter]
         IN IF candidates = <<>>
            THEN dump_bands_skipping(Tail(keys), annuli, root)
            ELSE LET best == min_stdev(candidates[1], Tail(candidates))
                     sorted == sort(candidates)
                 IN dump_bands_skipping(Tail(keys),
                               [annuli EXCEPT ![pfilter] = sorted],
                               AppendChild(root, band_element(pfilter, best, sorted)))

\* xml_dump's loop over the filters: the status it ends with, the tree and
\* the caller's mapping as it leaves them.  min() of an empty list raises
\* ValueError; the lists of the filters before it are sorted by then.
RECURSIVE dump_bands(_, _, _)
dump_bands(keys, annuli, root) ==
    IF keys = <<>> THEN [status |-> "ok", annuli |-> annuli, root |-> root]
    ELSE LET pfilter == keys[1]
             candidates == annuli[pfilter]
         IN IF candidates = <<>>
            THEN [status |-> "ValueError", annuli |-> annuli, root |-> root]
            ELSE LET best == min_stdev(candidates[1], Tail(candidates))
                     sorted == sort(candidates)
                 IN dump_bands(Tail(keys),
                               [annuli EXCEPT ![pfilter] = sorted],
                               AppendChild(root, band_element(pfilter, best, sorted)))

\* CandidateAnnuli.xml_dump(xml_path, annuli), called at time now with the
\* file at xml_path and the class's XML_DTD as they are then: the status it
\* ends with, and the mapping, the file and XML_DTD as it leaves them.
xml_dump(file, annuli, dtd, now) ==
    ByValue(dump_bands(sorted_keys(annuli), annuli, Element("annuli", <<>>, TextNone)),
            LAMBDA loop :
       IF loop.status # "ok"
       THEN [status |-> loop.status, annuli |-> loop.annuli, file |-> file, dtd |-> dtd]
       ELSE ByValue(setup_header(tostring(loop.root), dtd, now), LAMBDA x :
               [status |-> validate_dtd(x.lines), annuli |-> loop.annuli,
                file |-> File(x.lines), dtd |-> x.dtd]))

\* CandidateAnnuli(*[float(element.get(x)) for x in attrs]): [status, value]
candidate_of(node) ==
    LET aperture == float(Get(node, "aperture"))
        annulus == float(Get(node, "annulus"))
        dannulus == float(Get(node, "dannulus"))
        stdev == float(Get(node, "stdev"))
    IN [status |-> FirstError(<<aperture.status, annulus.status,
                                dannulus.status, stdev.status>>),
        value |-> CandidateAnnuli(aperture.value, annulus.value,
                                  dannulus.value, stdev.value)]

\* The candidates of the elements, in order: [status, value].
RECURSIVE candidates_of(_, _)
candidates_of(nodes, elements) ==
    IF elements = <<>> THEN [status |-> "ok", value |-> <<>>]
    ELSE ByValue(candidate_of(nodes[elements[1]]), LAMBDA c :
            IF c.status # "ok" THEN [status |-> c.status, value |-> <<>>]
            ELSE ByValue(candidates_of(nodes, Tail(elements)), LAMBDA rest :
                    [status |-> rest.status, value |-> <<c.value>> \o rest.value]))

\* A mapping whose key takes the candidates of the last band of the filter.
extend_overwriting(annuli, pfilter, candidates) ==
    [f \in DOMAIN annuli \cup {pfilter} |->
        IF f = pfilter THEN candidates ELSE annuli[f]]

\* annuli[pfilter] += candidates, of a collections.defaultdict(list); with
\* no candidate the key is not made.
extend_default(annuli, pfilter, candidates) ==
    IF candidates = <<>> THEN annuli
    ELSE IF pfilter \in DOMAIN annuli
    THEN [annuli EXCEPT ![pfilter] = @ \o candidates]
    ELSE annuli @@ (pfilter :> candidates)

\* A decoder whose best_only mode takes the band's first candidate child.
RECURSIVE load_bands_first_child(_, _, _, _)
load_bands_first_child(nodes, bands, best_only, annuli) ==
    IF bands = <<>> THEN [status |-> "ok", annuli |-> annuli]
    ELSE LET band == bands[1]
             pfilter == PassbandOf(Get(nodes[band], "name"))
             got == IF best_only
                    THEN candidates_of(nodes, Upto(Children(nodes, band), 1))
                    ELSE candidates_of(nodes, Children(nodes, band))
             status == FirstError(<<pfilter.status, got.status>>)
         IN IF status # "ok" THEN [status |-> status, annuli |-> annuli]
            ELSE load_bands_first_child(nodes, Tail(bands), best_only,
                            extend_default(annuli, pfilter.value, got.value))

\* xml_load's loop over the bands: [status, annuli].
RECURSIVE load_bands(_, _, _, _)
load_bands(nodes, bands, best_only, annuli) ==
    IF bands = <<>> THEN [status |-> "ok", annuli |-> annuli]
    ELSE LET band == bands[1]
             pfilter == PassbandOf(Get(nodes[band], "name"))
             got == IF best_only
                    THEN LET best == candidate_of(nodes[band])
                         IN [status |-> best.status, value |-> <<best.value>>]
                    ELSE candidates_of(nodes, Children(nodes, band))
             status == FirstError(<<pfilter.status, got.status>>)
         IN IF status # "ok" THEN [status |-> status, annuli |-> annuli]
            ELSE load_bands(nodes, Tail(bands), best_only,
                            extend_default(annuli, pfilter.value, got.value))

\* CandidateAnnuli.xml_load(xml_path, best_only): the status it ends with
\* and, when that is "ok", the mapping it returns.
xml_load(file, best_only) ==
    IF ~file.exists THEN [status |-> "IOError", annuli |-> <<>>]
    ELSE ByValue(parse(file.lines), LAMBDA nodes :
            load_bands(nodes, Children(nodes, IF nodes = <<>> THEN 0 ELSE 1),
                       best_only, <<>>))

\* ------------------------------------------------------------------------
\* The values the program is run on
\* ------------------------------------------------------------------------

JohnsonV == Passband("Johnson V")
JohnsonI == Passband("Johnson I")

\* The reference image: the XMLOffsetFile of every run is made for it.
ReferenceImage ==
    XMLOffsetFile("ref.fits", 1329174680, JohnsonI, "ngc2264_1minI",
                  Flt(FALSE, 5, <<7, 2, 2>>), Flt(FALSE, 1, <<1, 3, 4>>))

\* An offset of the reference image: x = 1.5, y = -0.75.
OffsetA ==
    XMLOffset("ref.fits", "a.fits", "ngc2264_1minI", JohnsonI, 1329174740,
              Flt(FALSE, 5, <<9>>), Flt(FALSE, 1, <<2>>),
              Flt(FALSE, 1, <<5>>), Flt(TRUE, 0, <<7, 5>>), 12, 10)

\* An offset of the reference image, of an earlier date, whose x has 13
\* significant digits: x = 0.1234567890123, y = 2.0.
OffsetB ==
    XMLOffset("ref.fits", "b.fits", "ngc2264_1minV", JohnsonV, 1329174620,
              Flt(FALSE, 6, <<1>>), Flt(FALSE, 1, <<1, 5>>),
              Flt(FALSE, 0, <<1, 2, 3, 4, 5, 6, 7, 8, 9, 0, 1, 2, 3>>),
              Flt(FALSE, 2, <<>>), 7, 9)

\* An offset of another reference image.
OffsetC ==
    XMLOffset("other.fits", "c.fits", "ngc2264_1minI", JohnsonI, 1329174800,
              Flt(FALSE, 5, <<5>>), Flt(FALSE, 1, <<3>>),
              Flt(TRUE, 3, <<2, 5>>), Flt(FALSE, 0, <<5>>), 4, 3)

Offsets == {OffsetA, OffsetB, OffsetC}

\* The sequences over S of length lo to hi.
SeqsOf(S, lo, hi) == UNION {[1..n -> S] : n \in lo..hi}

\* Candidates: two of the same stdev (0.008); two of the same (annulus,
\* aperture); one that the output precision does not hold (aperture
\* 1.234567, stdev 0.000000004).
CandA == CandidateAnnuli(Flt(FALSE, 3, <<>>), Flt(FALSE, 5, <<>>), Flt(FALSE, 2, <<>>),
                         Flt(FALSE, 0, <<0, 0, 8>>))
CandB == CandidateAnnuli(Flt(FALSE, 2, <<>>), Flt(FALSE, 4, <<>>), Flt(FALSE, 2, <<>>),
                         Flt(FALSE, 0, <<0, 0, 8>>))
CandC == CandidateAnnuli(Flt(FALSE, 2, <<>>), Flt(FALSE, 4, <<>>), Flt(FALSE, 3, <<>>),
                         Flt(FALSE, 0, <<0, 1, 2>>))
CandD == CandidateAnnuli(Flt(FALSE, 1, <<2, 3, 4, 5, 6, 7>>), Flt(FALSE, 4, <<5>>),
                         Flt(FALSE, 2, <<>>), Flt(FALSE, 0, <<0, 0, 0, 0, 0, 0, 0, 0, 4>>))

Candidates == {CandA, CandB, CandC, CandD}

RECURSIVE TotalLen(_, _)
TotalLen(annuli, keys) ==
    IF keys = {} THEN 0
    ELSE LET k == CHOOSE k \in keys : TRUE
         IN Len(annuli[k]) + TotalLen(annuli, keys \ {k})

\* The mappings from filters to lists of candidates, of at most MaxCands
\* candidates in all.
Mappings ==
    {m \in UNION {[D -> SeqsOf(Candidates, 0, MaxCands)] :
                     D \in SUBSET {JohnsonV, JohnsonI}} :
        TotalLen(m, DOMAIN m) <= MaxCands}

\* The times of the clock when a file is written.
Times == {1352142000, 1352142001}

\* The line without its attributes.
StripAttrs(l) == [l EXCEPT !.attrs = <<>>]

\* The files at the path before the program runs: none; a valid offsets
\* document of another run; one whose x_offset has no overlap attribute.
OffsetsFiles ==
    LET valid == toxml(list_append(ReferenceImage, OffsetA),
                       XMLOffsetFile_XML_DTD, 1352142000).lines
    IN {NoFile, File(valid),
        File([i \in 1..Len(valid) |->
                IF valid[i].tag = "x_offset" THEN StripAttrs(valid[i]) ELSE valid[i]])}

\* For the annuli: none; a valid document with two bands of one filter; one
\* whose band has no attribute but its name.
AnnuliFiles ==
    LET band1 == band_element(JohnsonV, CandA, <<CandA, CandC>>)
        band2 == band_element(JohnsonI, CandC, <<CandC>>)
        band3 == band_element(JohnsonV, CandB, <<CandB>>)
        root == AppendChild(AppendChild(AppendChild(
                    Element("annuli", <<>>, TextNone), band1), band2), band3)
        valid == setup_header(tostring(root), CandidateAnnuli_XML_DTD, 1352142000).lines
        bare == band_element(JohnsonI, CandC, <<>>)
        root2 == AppendChild(AppendChild(AppendChild(
                     Element("annuli", <<>>, TextNone), band1), bare), band3)
    IN {NoFile, File(valid),
        File(setup_header(tostring(root2), CandidateAnnuli_XML_DTD, 1352142000).lines),
        File([i \in 1..Len(valid) |->
                IF valid[i].tag = "band" /\ valid[i].k = "open"
                THEN [valid[i] EXCEPT !.attrs = [name |-> valid[i].attrs.name]]
                ELSE valid[i]])}

\* ------------------------------------------------------------------------
\* The state
\* ------------------------------------------------------------------------

VARIABLES
    codec,        \* the codec this run of the program uses: "offsets" or "annuli"
    offset_file,  \* the XMLOffsetFile the program holds
    annuli,       \* the mapping the caller passes to xml_dump
    file,         \* the file at the path
    XML_DTD,      \* the two classes' XML_DTD lists
    loaded,       \* the mapping the last xml_load returned
    last,         \* the last call: operation, arguments, the status it ended with
    written       \* what wrote the file, and the object or mapping it was given

vars == <<codec, offset_file, annuli, file, XML_DTD, loaded, last, written>>

Call(op, status, args, index, now, best_only) ==
    [op |-> op, status |-> status, args |-> args, index |-> index, now |-> now,
     best_only |-> best_only]

Init ==
    /\ codec \in {"offsets", "annuli"}
    /\ offset_file = ReferenceImage
    /\ annuli \in IF codec = "annuli" THEN Mappings ELSE {<<>>}
    /\ file \in IF codec = "offsets" THEN OffsetsFiles ELSE AnnuliFiles
    /\ XML_DTD = [XMLOffsetFile |-> XMLOffsetFile_XML_DTD,
                  CandidateAnnuli |-> CandidateAnnuli_XML_DTD]
    /\ loaded = <<>>
    /\ last = Call("__init__", "ok", <<>>, 0, 0, FALSE)
    /\ written = [by |-> "none", offset_file |-> ReferenceImage, annuli |-> <<>>]

\* offset_file.add(offset)
Add(offset) ==
    /\ codec = "offsets"
    /\ Len(offset_file.entries) < MaxEntries
    /\ \E r \in {add(offset_file, offset)} :
          /\ offset_file' = r.self
          /\ last' = Call("add", r.status, <<offset>>, 0, 0, FALSE)
    /\ UNCHANGED <<codec, annuli, file, XML_DTD, loaded, written>>

\* offset_file.append(offset)
ListAppend(offset) ==
    /\ codec = "offsets"
    /\ Len(offset_file.entries) < MaxEntries
    /\ offset_file' = list_append(offset_file, offset)
    /\ last' = Call("append", "ok", <<offset>>, 0, 0, FALSE)
    /\ UNCHANGED <<codec, annuli, file, XML_DTD, loaded, written>>

\* offset_file.insert(index, offset)
ListInsert(index, offset) ==
    /\ codec = "offsets"
    /\ Len(offset_file.entries) < MaxEntries
    /\ offset_file' = list_insert(offset_file, index, offset)
    /\ last' = Call("insert", "ok", <<offset>>, index, 0, FALSE)
    /\ UNCHANGED <<codec, annuli, file, XML_DTD, loaded, written>>

\* offset_file.extend(offsets)
ListExtend(offsets) ==
    /\ codec = "offsets"
    /\ Len(offset_file.entries) + Len(offsets) <= MaxEntries
    /\ offset_file' = list_extend(offset_file, offsets)
    /\ last' = Call("extend", "ok", offsets, 0, 0, FALSE)
    /\ UNCHANGED <<codec, annuli, file, XML_DTD, loaded, written>>

\* offset_file.dump(path), once in a run
Dump(now) ==
    /\ codec = "offsets"
    /\ written.by = "none"
    /\ \E r \in {dump(offset_file, XML_DTD.XMLOffsetFile, now)} :
          /\ file' = r.file
          /\ XML_DTD' = [XML_DTD EXCEPT !.XMLOffsetFile = r.dtd]
          /\ last' = Call("dump", r.status, <<>>, 0, now, FALSE)
    /\ written' = [by |-> "dump", offset_file |-> offset_file, annuli |-> <<>>]
    /\ UNCHANGED <<codec, offset_file, annuli, loaded>>

\* offset_file = XMLOffsetFile.load(path)
Load ==
    /\ codec = "offsets"
    /\ \E r \in {load(file)} :
          /\ offset_file' = IF r.status = "ok" THEN r.offset_file ELSE offset_file
          /\ last' = Call("load", r.status, <<>>, 0, 0, FALSE)
    /\ UNCHANGED <<codec, annuli, file, XML_DTD, loaded, written>>

\* CandidateAnnuli.xml_dump(path, annuli), once in a run
XmlDump(now) ==
    /\ codec = "annuli"
    /\ written.by = "none"
    /\ \E r \in {xml_dump(file, annuli, XML_DTD.CandidateAnnuli, now)} :
          /\ file' = r.file
          /\ annuli' = r.annuli
          /\ XML_DTD' = [XML_DTD EXCEPT !.CandidateAnnuli = r.dtd]
          /\ last' = Call("xml_dump", r.status, <<>>, 0, now, FALSE)
          /\ written' = IF r.status = "ValueError" THEN written
                         ELSE [by |-> "xml_dump", offset_file |-> ReferenceImage,
                               annuli |-> annuli]
    /\ UNCHANGED <<codec, offset_file, loaded>>

\* loaded = CandidateAnnuli.xml_load(path, best_only)
XmlLoad(best_only) ==
    /\ codec = "annuli"
    /\ \E r \in {xml_load(file, best_only)} :
          /\ loaded' = IF r.status = "ok" THEN r.annuli ELSE loaded
          /\ last' = Call("xml_load", r.status, <<>>, 0, 0, best_only)
    /\ UNCHANGED <<codec, offset_file, annuli, file, XML_DTD, written>>

Next ==
    \/ \E offset \in Offsets : Add(offset)
    \/ \E offset \in Offsets : ListAppend(offset)
    \/ \E offset \in Offsets, index \in 0..MaxEntries : ListInsert(index, offset)
    \/ \E offsets \in SeqsOf(Offsets, 0, 2) : ListExtend(offsets)
    \/ \E now \in Times : Dump(now)
    \/ Load
    \/ \E now \in Times : XmlDump(now)
    \/ \E best_only \in BOOLEAN : XmlLoad(best_only)

Spec == Init /\ [][Next]_vars

\* ------------------------------------------------------------------------
\* Properties
\* ------------------------------------------------------------------------

\* Every entry of the XMLOffsetFile has the document's reference path.
SameReference(self) ==
    \A i \in 1..Len(self.entries) : self.entries[i].reference = self.reference.path

\* How often c is in the list.
Count(list, c) == Cardinality({i \in 1..Len(list) : list[i] = c})

SameMultiset(a, b) ==
    /\ Len(a) = Len(b)
    /\ \A i \in 1..Len(a) : Count(a, a[i]) = Count(b, a[i])

\* The list is in ascending (annulus, aperture) order.
Ascending(list) ==
    \A i, j \in 1..Len(list) : i < j => ~KeyLess(list[j], list[i])

\* The candidate's values are held exactly by the output precision: five
\* decimals, eight for stdev.
Representable(c) ==
    /\ Len(c.aperture.fd) <= 5 /\ Len(c.annulus.fd) <= 5
    /\ Len(c.dannulus.fd) <= 5 /\ Len(c.stdev.fd) <= 8

AllRepresentable(m) ==
    \A f \in DOMAIN m : \A i \in 1..Len(m[f]) : Representable(m[f][i])

\* The candidate with each value rounded to the output precision.
Rounded(c) ==
    CandidateAnnuli(RoundFrac(c.aperture, 5), RoundFrac(c.annulus, 5),
                    RoundFrac(c.dannulus, 5), RoundFrac(c.stdev, 8))

\* The first candidate of the list, in the list's order, that has the
\* least stdev.
FirstMinimum(list) ==
    list[CHOOSE i \in 1..Len(list) :
            /\ \A j \in 1..Len(list) : ~FloatLess(list[j].stdev, list[i].stdev)
            /\ \A j \in 1..(i - 1) : FloatLess(list[i].stdev, list[j].stdev)]

\* The file is the one the program's dump or xml_dump wrote.
Dumped == written.by = "dump" /\ file.exists
XmlDumped == written.by = "xml_dump" /\ file.exists

\* C1: offsets round trip. XMLOffsetFile.load of the file written by d.dump
\* ends without error and returns a document equal to d: the same six
\* reference fields and the same offsets in the same order, each equal field
\* by field to the original (reference included).
C1_OffsetsRoundTrip ==
    (last.op = "load" /\ Dumped)
        => /\ last.status = "ok"
           /\ offset_file.reference = written.offset_file.reference
           /\ offset_file.entries = written.offset_file.entries

\* C2: the referential guard. A call add(offset) whose offset has another
\* reference path than the document ends with ValueError and leaves the
\* document (reference, entries, their order) as it was; with the
\* document's path it appends the offset at the end and changes nothing else.
C2_ReferentialGuard ==
    [][last'.op = "add" =>
         IF last'.args[1].reference # offset_file.reference.path
         THEN last'.status = "ValueError" /\ offset_file' = offset_file
         ELSE /\ last'.status = "ok"
              /\ offset_file'.entries = Append(offset_file.entries, last'.args[1])
              /\ offset_file'.reference = offset_file.reference]_vars

\* C2's case: an add that was refused, on a document that holds an entry.
C2_Witness ==
    /\ last.op = "add" /\ last.status = "ValueError"
    /\ Len(offset_file.entries) >= 1

\* C3: schema rejection on read. load and xml_load of a file that is not
\* valid against its DTD end with the schema-validation error.
C3_SchemaRejection ==
    (last.op \in {"load", "xml_load"} /\ file.exists /\ ~Valid(file.lines))
        => last.status = "XMLSyntaxError"

C5_BestSelection ==
    XmlDumped =>
        LET nodes == parse(file.lines)
            bands == Children(nodes, 1)
            keys == sorted_keys(written.annuli)
        IN /\ Len(bands) = Len(keys)
           /\ \A k \in 1..Len(keys) :
                 nodes[bands[k]].attrs =
                     [name |-> StrText(keys[k].name)]
                     @@ candidate_kwargs(FirstMinimum(written.annuli[keys[k]]))

\* C5's case: two candidates of the same least stdev, the first of them in
\* the caller's order being the second in (annulus, aperture) order.
C5_Witness ==
    /\ XmlDumped
    /\ \E f \in DOMAIN written.annuli :
          LET list == written.annuli[f]
          IN /\ Len(list) >= 2
             /\ list[1].stdev = list[2].stdev
             /\ list[1] = FirstMinimum(list)
             /\ KeyLess(list[2], list[1])

\* The text dump or xml_dump gave setup_header in the last call.
XmlContent ==
    IF last.op = "dump" THEN tostring(offsets_root(offset_file))
    ELSE tostring(dump_bands(sorted_keys(written.annuli), written.annuli,
                             Element("annuli", <<>>, TextNone)).root)

\* C6: header shape. The text setup_header returns has the text's first
\* line (the XML declaration) as line 1, the one generation comment as line
\* 2, then the lines of the DTD in order, then the text's lines 2..n as they
\* were; and the DTD list passed in is as it was.
C6_HeaderShape ==
    /\ XML_DTD = [XMLOffsetFile |-> XMLOffsetFile_XML_DTD,
                  CandidateAnnuli |-> CandidateAnnuli_XML_DTD]
    /\ (last.op \in {"dump", "xml_dump"} /\ last.status # "ValueError") =>
          LET dtd == IF last.op = "dump" THEN XMLOffsetFile_XML_DTD
                     ELSE CandidateAnnuli_XML_DTD
              text == XmlContent
              lines == file.lines
          IN /\ file.exists
             /\ Len(lines) = Len(text) + 1 + Len(dtd)
             /\ lines[1] = text[1] /\ lines[1] = XmlDeclaration
             /\ lines[2] = Comment(utctime(last.now))
             /\ {i \in 1..Len(lines) : lines[i].k = "comment"} = {2}
             /\ SubSeq(lines, 3, 2 + Len(dtd)) = dtd
             /\ SubSeq(lines, 3 + Len(dtd), Len(lines)) = Tail(text)

\* C6's case: the header of a written offsets document with an entry.
C6_Witness ==
    /\ last.op = "dump" /\ file.exists
    /\ Len(offset_file.entries) >= 1

\* C7: the reference-path invariant. In every reachable state of an
\* XMLOffsetFile, made by the constructor or by load and changed by add,
\* append, insert and extend, every entry's reference is the document's
\* reference path.
C7_ReferencePathInvariant == SameReference(offset_file)

\* C7, amended: the constructor and load make a document whose entries all
\* have its reference path, and add keeps it so; append, insert and extend
\* are not part of the statement.
C7_GuardedReferencePath ==
    /\ [](last.op = "__init__" => SameReference(offset_file))
    /\ [][/\ (last'.op = "load" /\ last'.status = "ok") => SameReference(offset_file')
          /\ (last'.op = "add" /\ SameReference(offset_file))
                 => SameReference(offset_file')]_vars

\* C7's case: a document of two entries after an accepted add, all of its
\* reference path.
C7_Witness ==
    /\ last.op = "add" /\ last.status = "ok"
    /\ Len(offset_file.entries) >= 2
    /\ SameReference(offset_file)

\* C8: a document with no entry is valid. dump of an XMLOffsetFile that
\* has no entry writes a document of size 0 with the reference block and no
\* offset block, and ends without error.
C8_EmptyDocumentValid ==
    (last.op = "dump" /\ offset_file.entries = <<>>)
        => /\ file.exists
           /\ LET nodes == parse(file.lines)
              IN /\ nodes[1].attrs = [size |-> IntText(0)]
                 /\ Len(getiterator(nodes, 1, "reference")) = 1
                 /\ getiterator(nodes, 1, "offset") = <<>>
           /\ last.status = "ok"

\* The candidates xml_load makes of the band elements' own attributes.
BandCandidates ==
    LET nodes == parse(file.lines)
        bands == Children(nodes, IF nodes = <<>> THEN 0 ELSE 1)
    IN [k \in 1..Len(bands) |-> candidate_of(nodes[bands[k]]).value]

\* xml_load(best_only = True) returned one candidate per band of the file,
\* each made of a band's own attributes.
OnePerBand ==
    /\ TotalLen(loaded, DOMAIN loaded) = Len(BandCandidates)
    /\ \A f \in DOMAIN loaded : \A i \in 1..Len(loaded[f]) :
          \E k \in 1..Len(BandCandidates) : BandCandidates[k] = loaded[f][i]

\* The one candidate of loaded[f] is in the list xml_load(best_only = False)
\* returns for f.
InFullList(f) ==
    LET full == xml_load(file, FALSE).annuli
    IN f \in DOMAIN full /\ Count(full[f], loaded[f][1]) >= 1

\* C9: best-only decode. xml_load(path, best_only = True) gives one
\* candidate per band, made of the band's attributes; of a file xml_dump
\* wrote from m it returns, for each filter of m, a list of exactly one
\* candidate, equal to m's candidate of least stdev for the filter, which is
\* also in the list best_only = False returns for the filter.
C9_BestOnlyDecode ==
    (last.op = "xml_load" /\ last.best_only /\ last.status = "ok") =>
        /\ OnePerBand
        /\ XmlDumped =>
              /\ DOMAIN loaded = DOMAIN written.annuli
              /\ \A f \in DOMAIN loaded :
                    /\ loaded[f] = <<FirstMinimum(written.annuli[f])>>
                    /\ InFullList(f)

\* C9, amended: the one candidate is m's first candidate of least stdev
\* with each value rounded to the output precision (five decimals, eight
\* for stdev).
C9_BestOnlyDecodeRounded ==
    (last.op = "xml_load" /\ last.best_only) =>
        /\ last.status = "ok" => OnePerBand
        /\ XmlDumped =>
              /\ last.status = "ok"
              /\ DOMAIN loaded = DOMAIN written.annuli
              /\ \A f \in DOMAIN loaded :
                    /\ loaded[f] = <<Rounded(FirstMinimum(written.annuli[f]))>>
                    /\ InFullList(f)

\* C9's case: a best-only load of a file written from a list of two whose
\* best candidate is not the first in (annulus, aperture) order.
C9_Witness ==
    /\ last.op = "xml_load" /\ last.best_only /\ last.status = "ok" /\ XmlDumped
    /\ \E f \in DOMAIN written.annuli :
          /\ Len(written.annuli[f]) >= 2
          /\ KeyLess(written.annuli[f][2], written.annuli[f][1])
          /\ loaded[f] = <<written.annuli[f][1]>>

\* C10: the write is not atomic. After dump or xml_dump has written, the
\* file holds the new text whatever the validation said, and the status is
\* the validation's of that very file: when it is the validation error, the
\* file is there, holds the new text, and is not valid.
C10_NonAtomicWrite ==
    /\ last.op = "dump" =>
          /\ file = File(toxml(offset_file, XMLOffsetFile_XML_DTD, last.now).lines)
          /\ last.status = validate_dtd(file.lines)
    /\ (last.op = "xml_dump" /\ last.status # "ValueError") =>
          /\ file = xml_dump(NoFile, written.annuli, CandidateAnnuli_XML_DTD,
                             last.now).file
          /\ file.exists
          /\ last.status = validate_dtd(file.lines)

\* C10's case: a dump whose validation failed, over a file that was there
\* before.
C10_Witness ==
    /\ last.op = "dump" /\ last.status = "XMLSyntaxError"
    /\ file.exists /\ ~Valid(file.lines)
    /\ getiterator(parse(file.lines), 1, "offset") = <<>>

\* after is before in ascending (annulus, aperture) order, the candidates
\* of equal key in the order they had in before.
StablySorted(before, after) ==
    /\ Len(after) = Len(before)
    /\ \E p \in Permutations(1..Len(before)) :
          /\ \A i \in 1..Len(after) : after[i] = before[p[i]]
          /\ \A i, j \in 1..Len(after) :
                i < j => \/ KeyLess(after[i], after[j])
                         \/ ~KeyLess(after[j], after[i]) /\ p[i] < p[j]

\* The candidate children of the k-th band of the file carry the values of
\* the list, in its order.
ChildrenAre(lines, k, list) ==
    LET nodes == parse(lines)
        children == Children(nodes, Children(nodes, 1)[k])
    IN /\ Len(children) = Len(list)
       /\ \A i \in 1..Len(list) :
             nodes[children[i]].attrs = candidate_kwargs(list[i])

BandFilter(nodes, k) == PassbandOf(Get(nodes[Children(nodes, 1)[k]], "name")).value

\* What the k-th band of the file gives xml_load: the candidate of its own
\* attributes (best_only), or its candidate children in document order.
Contribution(nodes, k, best_only) ==
    LET band == Children(nodes, 1)[k]
        children == Children(nodes, band)
    IN IF best_only THEN <<candidate_of(nodes[band]).value>>
       ELSE [i \in 1..Len(children) |-> candidate_of(nodes[children[i]]).value]

\* The contributions of the first k bands that name f, one after the other
\* in document order.
RECURSIVE Merged(_, _, _, _)
Merged(nodes, k, f, best_only) ==
    IF k = 0 THEN <<>>
    ELSE Merged(nodes, k - 1, f, best_only)
         \o (IF BandFilter(nodes, k) = f THEN Contribution(nodes, k, best_only)
             ELSE <<>>)

\* The file has two bands of the same filter name.
DuplicateBands(nodes) ==
    \E j, k \in 1..Len(Children(nodes, 1)) :
        j < k /\ BandFilter(nodes, j) = BandFilter(nodes, k)

\* C12: the merge of duplicate bands. xml_load of a document with several
\* bands of one filter name returns one key for the filter, its list the
\* contributions of these bands one after the other in document order, and
\* as many keys as there are distinct filter names in the document.
C12_DuplicateBandMerge ==
    (last.op = "xml_load" /\ last.status = "ok" /\ DuplicateBands(parse(file.lines))) =>
        LET nodes == parse(file.lines)
            n == Len(Children(nodes, 1))
        IN /\ \A f \in DOMAIN loaded : loaded[f] = Merged(nodes, n, f, last.best_only)
           /\ DOMAIN loaded = {BandFilter(nodes, k) : k \in 1..n}

\* C12, amended: the keys are the filter names of the bands that give at
\* least one candidate; in full mode a band with no candidate child makes
\* no key.
C12_MergeOfContributions ==
    (last.op = "xml_load" /\ last.status = "ok" /\ DuplicateBands(parse(file.lines))) =>
        LET nodes == parse(file.lines)
            n == Len(Children(nodes, 1))
        IN /\ \A f \in DOMAIN loaded : loaded[f] = Merged(nodes, n, f, last.best_only)
           /\ DOMAIN loaded = {BandFilter(nodes, k) :
                 k \in {j \in 1..n : Contribution(nodes, j, last.best_only) # <<>>}}
           /\ last.best_only => DOMAIN loaded = {BandFilter(nodes, k) : k \in 1..n}

\* C12's case: a full load of a document whose first and third band name
\* the same filter, a band of another filter between them.
C12_Witness ==
    /\ last.op = "xml_load" /\ last.status = "ok" /\ ~last.best_only
    /\ LET nodes == parse(file.lines)
       IN /\ Len(Children(nodes, 1)) >= 3
          /\ BandFilter(nodes, 1) = BandFilter(nodes, 3)
          /\ BandFilter(nodes, 2) # BandFilter(nodes, 1)
          /\ Len(loaded[BandFilter(nodes, 1)]) >= 3
          /\ BandFilter(nodes, 2) \in DOMAIN loaded

\* The mapping has a filter with no candidate.
HasEmptyList(m) == \E f \in DOMAIN m : m[f] = <<>>

\* A band of the file that has no candidate child.
BandsWithoutCandidates(lines) ==
    LET nodes == parse(lines)
        bands == Children(nodes, 1)
    IN {k \in 1..Len(bands) : Children(nodes, bands[k]) = <<>>}

\* C13: an empty list on encode. xml_dump of a mapping that has a filter
\* with no candidate raises (ValueError, of min) before the file is opened:
\* no file is made, a file that is there keeps its content, and no file
\* xml_dump writes has a band without candidates.
C13_EmptyListOnEncode ==
    [][last'.op = "xml_dump" =>
          /\ HasEmptyList(annuli) <=> last'.status = "ValueError"
          /\ HasEmptyList(annuli) => file' = file
          /\ ~HasEmptyList(annuli) =>
                /\ file'.exists
                /\ BandsWithoutCandidates(file'.lines) = {}
                /\ Len(Children(parse(file'.lines), 1)) = Cardinality(DOMAIN annuli)]_vars

\* C13's case: an xml_dump that raised for a mapping of a filter with
\* candidates and a filter with none, the file that was there before still
\* in place.
C13_Witness ==
    /\ last.op = "xml_dump" /\ last.status = "ValueError"
    /\ written.by = "none"
    /\ file \in AnnuliFiles /\ file.exists
    /\ \E f, g \in DOMAIN annuli : annuli[f] = <<>> /\ Len(annuli[g]) >= 2

====
